---- MODULE Spec2Model ----
(***************************************************************************)
(* MedMind backend (backend/server.py): the document store behind the API  *)
(* (user_profiles, medications, medication_logs, health_journal), the      *)
(* write handlers with their HTTP responses, and the dashboard request     *)
(* with its streak walk.  The dashboard awaits the store many times and is *)
(* one action per await, so that other requests interleave exactly where   *)
(* the event loop lets them.  A write handler writes the store in a single *)
(* await and is one action; its response is an operator over the state the *)
(* request finds, the document it reads back being the one it has written. *)
(*                                                                         *)
(* Time: an instant is an integer; a calendar day d is the TicksPerDay     *)
(* instants d*TicksPerDay .. d*TicksPerDay + TicksPerDay - 1.  An optional *)
(* value (None / a value) is the empty or the one-element sequence.        *)
(* A collection is the sequence of its documents in insertion order, and   *)
(* a fresh uuid is the next index.                                         *)
(***************************************************************************)
EXTENDS Integers, Sequences, FiniteSets, TLC

VARIABLES
    user_profiles,    \* db.user_profiles: the set of profile documents
    medications,      \* db.medications: sequence of medication documents
    medication_logs,  \* db.medication_logs: sequence of log documents
    health_journal,   \* db.health_journal: sequence of journal entries
    now,              \* the system clock, an instant
    dash,             \* the frame of the get_user_dashboard request in flight
    walk,             \* the frame of calculate_medication_streak
    calls,            \* results handed back to a direct caller of the streak
    seen              \* history: the streaks the log store has held since the
                      \* walk in flight began

vars ==
    <<user_profiles, medications, medication_logs, health_journal, now, dash,
      walk, calls, seen>>

(***************************** bounds **************************************)
MaxMeds == 2          \* medications created through the API
MaxLogs == 2          \* logs created through the API
MaxEntries == 1       \* journal entries created through the API
MaxNow == 2           \* the clock stops ticking at this instant
MaxCalls == 2         \* direct streak calls in a row
MaxRun == 3           \* days of history in a short initial log store
TicksPerDay == 2      \* instants per calendar day

(************************* program constants *******************************)
LookbackLimit == 365  \* for i in range(365)
ToListLimit == 1000   \* .to_list(1000)

UserIds == {"u1", "u2"}
Statuses == {"pending", "taken", "missed", "current"}
TotalInputs == {3}
RemainingInputs == {0, 5}
Names == {"Ann", "Bea"}
Ages == {70, 71}

None == <<>>
Some(v) == <<v>>

(****************************** time ***************************************)
\* datetime.now().date()
DateOf(t) == t \div TicksPerDay
\* datetime.combine(d, datetime.min.time())
DayStart(d) == d * TicksPerDay
\* datetime.combine(d, datetime.max.time())
DayEnd(d) == d * TicksPerDay + (TicksPerDay - 1)

(************************** store queries **********************************)
\* FindLogsInRange, were the query to leave out the user_id
FindLogsOfAllInRange(u, lo, hi) ==
    LET match(l) == l.scheduled_time >= lo /\ l.scheduled_time <= hi
    IN IF Len(SelectSeq(medication_logs, match)) <= ToListLimit
       THEN SelectSeq(medication_logs, match)
       ELSE SubSeq(SelectSeq(medication_logs, match), 1, ToListLimit)

\* cursor.to_list(n): at most the first n documents of the cursor
to_list(docs, n) == IF Len(docs) <= n THEN docs ELSE SubSeq(docs, 1, n)

\* db.medications.find({"user_id": u, "is_active": True}).to_list(1000)
FindActiveMedications(u) ==
    LET match(m) == m.user_id = u /\ m.is_active = TRUE
    IN to_list(SelectSeq(medications, match), ToListLimit)

\* db.medication_logs.find({"user_id": u, "scheduled_time":
\*                          {"$gte": lo, "$lte": hi}}).to_list(1000)
FindLogsInRange(u, lo, hi) ==
    LET match(l) == l.user_id = u /\ l.scheduled_time >= lo /\ l.scheduled_time <= hi
    IN to_list(SelectSeq(medication_logs, match), ToListLimit)

\* matched_count of update_one({"id": id}, ...)
Matched(coll, id) == id \in DOMAIN coll

(************************** input domains **********************************)
\* scheduled_time values a client sends: the last instant of the day before
\* day 0, and the first and last instants of day 0
SchedInputs == {DayStart(0) - 1, DayStart(0), DayEnd(0)}
\* the days a log may be scheduled in
ScheduledDates == {DateOf(t) : t \in SchedInputs}
\* a taken_at a client sends in a log update
TakenAtInputs == {DayStart(0)}
MedIdInputs == 1..(MaxMeds + 1)
LogIdInputs == 1..(MaxLogs + 1)

\* MedicationUpdate with the fields the handlers' logic reads; a field left
\* out of the request is None
MedicationUpdates ==
    [remaining_pills : {None} \cup {Some(r) : r \in RemainingInputs},
     is_active : {None} \cup {Some(b) : b \in BOOLEAN}]

\* MedicationLogUpdate; the document's taken_at is itself optional, so a
\* supplied taken_at carries the document value Some(t)
MedicationLogUpdates ==
    [taken_at : {None} \cup {Some(Some(t)) : t \in TakenAtInputs},
     status : {None} \cup {Some(s) : s \in Statuses}]

\* UserProfileUpdate
UserProfileUpdates ==
    [name : {None} \cup {Some(n) : n \in Names},
     age : {None} \cup {Some(a) : a \in Ages}]

\* HealthJournalEntryUpdate
JournalNotes == {"", "dizzy"}
HealthJournalEntryUpdates ==
    [notes : {None} \cup {Some(n) : n \in JournalNotes},
     caregiver_alerted : {None} \cup {Some(b) : b \in BOOLEAN}]
EntryIdInputs == 1..(MaxEntries + 1)

\* {k: v for k, v in update.dict().items() if v is not None}
update_dict(upd) == {k \in DOMAIN upd : upd[k] # None}

\* {"$set": update_dict} applied to one document
SetFields(doc, upd) ==
    [k \in DOMAIN doc |->
        IF k \in DOMAIN upd /\ k \in update_dict(upd) THEN upd[k][1] ELSE doc[k]]

(*************************** frames ****************************************)
IdleDash ==
    [pc |-> "idle", user_id |-> "", medications |-> <<>>, today |-> 0,
     today_logs |-> <<>>, response |-> None]

IdleWalk ==
    [pc |-> "idle", caller |-> "", user_id |-> "", current_date |-> 0,
     i |-> 0, streak |-> 0, last_read |-> None]

(*************************** responses *************************************)
\* the document a handler returns, and what raise HTTPException(status_code)
\* makes of the request
Ok(body) == [code |-> 200, body |-> body]
BadRequest == [code |-> 400]
NotFound == [code |-> 404]
\* what the server makes of an exception no handler catches
ServerError == [code |-> 500]

(*************************** profiles **************************************)
\* UserProfile(**profile.dict()) with the fields the handlers' logic reads
Profile(id, name, age) ==
    [id |-> id, name |-> name, age |-> age, onboarding_completed |-> FALSE]

\* db.user_profiles.find_one({"id": user_id}): the set of matches
FindProfile(user_id) == {p \in user_profiles : p.id = user_id}

\* POST /profile: the new profile gets a fresh uuid
create_user_profile(id, name, age) ==
    /\ FindProfile(id) = {}
    /\ user_profiles' = user_profiles \cup {Profile(id, name, age)}
    /\ UNCHANGED <<medications, medication_logs, now, dash, walk, calls, health_journal, seen>>

\* GET /profile/{user_id}: 404 without a match
get_user_profile(user_id) ==
    IF FindProfile(user_id) = {} THEN NotFound
    ELSE Ok(CHOOSE p \in FindProfile(user_id) : TRUE)

\* update_user_profile, were update_one to upsert
update_user_profile_upsert(user_id, upd) ==
    /\ IF update_dict(upd) = {}
       THEN UNCHANGED user_profiles
       ELSE IF FindProfile(user_id) = {}
       THEN user_profiles' = user_profiles \cup {SetFields(Profile(user_id, "", 0), upd)}
       ELSE user_profiles' =
                {IF p.id = user_id THEN SetFields(p, upd) ELSE p : p \in user_profiles}
    /\ UNCHANGED <<medications, medication_logs, now, dash, walk, calls, health_journal, seen>>

\* PUT /profile/{user_id}: 400 without fields, 404 without a match
update_user_profile(user_id, upd) ==
    /\ IF update_dict(upd) = {} \/ FindProfile(user_id) = {}
       THEN UNCHANGED user_profiles
       ELSE user_profiles' =
                {IF p.id = user_id THEN SetFields(p, upd) ELSE p : p \in user_profiles}
    /\ UNCHANGED <<medications, medication_logs, now, dash, walk, calls, health_journal, seen>>

\* the response of update_user_profile: the profile read back (lines 209-210)
update_user_profile_response(user_id, upd) ==
    IF update_dict(upd) = {} THEN BadRequest
    ELSE IF FindProfile(user_id) = {} THEN NotFound
    ELSE Ok(SetFields(CHOOSE p \in FindProfile(user_id) : TRUE, upd))

\* POST /profile/{user_id}/complete-onboarding: 404 without a match
complete_onboarding(user_id) ==
    /\ user_profiles' =
           {IF p.id = user_id THEN [p EXCEPT !.onboarding_completed = TRUE] ELSE p :
               p \in user_profiles}
    /\ UNCHANGED <<medications, medication_logs, now, dash, walk, calls, health_journal, seen>>

complete_onboarding_response(user_id) ==
    IF FindProfile(user_id) = {} THEN NotFound
    ELSE Ok("Onboarding completed successfully")

(************************** medications ************************************)
\* POST /medications
create_medication(user_id, total_pills) ==
    /\ Len(medications) < MaxMeds
    /\ medications' = Append(medications,
           [id |-> Len(medications) + 1, user_id |-> user_id,
            total_pills |-> total_pills, remaining_pills |-> total_pills,
            is_active |-> TRUE])
    /\ UNCHANGED <<user_profiles, medication_logs, now, dash, walk, calls, health_journal, seen>>

\* GET /medications/{user_id}
get_user_medications(user_id) == FindActiveMedications(user_id)

\* update_medication, were $set to replace the document by the supplied
\* fields and defaults
update_medication_replace(medication_id, upd) ==
    /\ IF update_dict(upd) = {} \/ ~Matched(medications, medication_id)
       THEN UNCHANGED medications
       ELSE medications' = [medications EXCEPT
                ![medication_id] = SetFields([@ EXCEPT !.remaining_pills = 0,
                                                       !.is_active = TRUE], upd)]
    /\ UNCHANGED <<user_profiles, medication_logs, now, dash, walk, calls, health_journal, seen>>

\* PUT /medications/{medication_id}: 400 without fields, 404 without a match
update_medication(medication_id, upd) ==
    /\ IF update_dict(upd) = {} \/ ~Matched(medications, medication_id)
       THEN UNCHANGED medications
       ELSE medications' = [medications EXCEPT
                ![medication_id] = SetFields(@, upd)]
    /\ UNCHANGED <<user_profiles, medication_logs, now, dash, walk, calls, health_journal, seen>>

\* the response of update_medication: the medication read back (lines 261-262)
update_medication_response(medication_id, upd) ==
    IF update_dict(upd) = {} THEN BadRequest
    ELSE IF ~Matched(medications, medication_id) THEN NotFound
    ELSE Ok(SetFields(medications[medication_id], upd))

\* delete_medication, were it to remove the document
delete_medication_for_good(medication_id) ==
    /\ LET others(m) == m.id # medication_id
       IN medications' = SelectSeq(medications, others)
    /\ UNCHANGED <<user_profiles, medication_logs, now, dash, walk, calls, health_journal, seen>>

\* DELETE /medications/{medication_id}: 404 without a match
delete_medication(medication_id) ==
    /\ IF ~Matched(medications, medication_id)
       THEN UNCHANGED medications
       ELSE medications' = [medications EXCEPT ![medication_id].is_active = FALSE]
    /\ UNCHANGED <<user_profiles, medication_logs, now, dash, walk, calls, health_journal, seen>>

delete_medication_response(medication_id) ==
    IF ~Matched(medications, medication_id) THEN NotFound
    ELSE Ok("Medication deleted successfully")

(*************************** history ***************************************)
Range(seq) == {seq[n] : n \in DOMAIN seq}

\* the day bucket: this user's logs whose scheduled_time falls in day d
DayBucket(user_id, d) ==
    {l \in Range(medication_logs) : l.user_id = user_id /\ DateOf(l.scheduled_time) = d}

\* a qualifying day: at least one log and no missed log
Qualifies(user_id, d) ==
    /\ DayBucket(user_id, d) # {}
    /\ \A l \in DayBucket(user_id, d) : l.status # "missed"

\* the offsets within the look-back whose day breaks the streak
BreakingOffsets(user_id, today) ==
    {k \in 0..(LookbackLimit - 1) : ~Qualifies(user_id, today - k)}

\* the streak the claims define: the offset of the first breaking day, capped
ClaimedStreak(user_id, today) ==
    LET B == BreakingOffsets(user_id, today)
    IN IF B = {} THEN LookbackLimit
       ELSE CHOOSE k \in B : \A j \in B : k <= j

\* the days on which the user has a log and no missed log
QualifyingDays(user_id) ==
    LET own == {l \in Range(medication_logs) : l.user_id = user_id}
        missed == {l \in own : l.status = "missed"}
    IN {DateOf(l.scheduled_time) : l \in own} \ {DateOf(l.scheduled_time) : l \in missed}

\* the streak of the log store as it stands, for the day a walk starts from:
\* ClaimedStreak, found among the offsets up to the number of qualifying days
StoreStreak(user_id, today) ==
    LET Q == QualifyingDays(user_id)
        cap == IF Cardinality(Q) < LookbackLimit THEN Cardinality(Q) ELSE LookbackLimit
    IN CHOOSE k \in 0..cap :
           /\ k = LookbackLimit \/ today - k \notin Q
           /\ \A j \in 0..(k - 1) : today - j \in Q

\* what a write to the logs adds to the history of the walk in flight
SeenAfterWrite ==
    IF walk.pc = "loop"
    THEN seen \cup {StoreStreak(walk.user_id, walk.current_date)'}
    ELSE seen

(************************* medication logs *********************************)
\* POST /medication-logs
create_medication_log(user_id, medication_id, scheduled_time, status) ==
    /\ Len(medication_logs) < MaxLogs
    /\ medication_logs' = Append(medication_logs,
           [id |-> Len(medication_logs) + 1, user_id |-> user_id,
            medication_id |-> medication_id, scheduled_time |-> scheduled_time,
            taken_at |-> None, status |-> status])
    /\ UNCHANGED <<user_profiles, medications, now, dash, walk, calls, health_journal>>
    /\ seen' = SeenAfterWrite

\* PUT /medication-logs/{log_id}: 400 without fields, 404 without a match
update_medication_log(log_id, upd) ==
    /\ IF update_dict(upd) = {} \/ ~Matched(medication_logs, log_id)
       THEN UNCHANGED medication_logs
       ELSE medication_logs' = [medication_logs EXCEPT
                ![log_id] = SetFields(@, upd)]
    /\ UNCHANGED <<user_profiles, medications, now, dash, walk, calls, health_journal>>
    /\ seen' = SeenAfterWrite

\* the response of update_medication_log: the log read back (lines 370-371)
update_medication_log_response(log_id, upd) ==
    IF update_dict(upd) = {} THEN BadRequest
    ELSE IF ~Matched(medication_logs, log_id) THEN NotFound
    ELSE Ok(SetFields(medication_logs[log_id], upd))

\* POST /medication-logs/{log_id}/take: 404 without a match
mark_medication_taken(log_id) ==
    /\ IF ~Matched(medication_logs, log_id)
       THEN UNCHANGED medication_logs
       ELSE medication_logs' = [medication_logs EXCEPT
                ![log_id].status = "taken", ![log_id].taken_at = Some(now)]
    /\ UNCHANGED <<user_profiles, medications, now, dash, walk, calls, health_journal>>
    /\ seen' = SeenAfterWrite

mark_medication_taken_response(log_id) ==
    IF ~Matched(medication_logs, log_id) THEN NotFound
    ELSE Ok("Medication marked as taken")

\* .sort("scheduled_time", -1): the latest document first
RECURSIVE SortByScheduledTimeDesc(_)
SortByScheduledTimeDesc(docs) ==
    IF docs = <<>> THEN <<>>
    ELSE LET latest == CHOOSE n \in DOMAIN docs :
                           \A k \in DOMAIN docs :
                               docs[k].scheduled_time <= docs[n].scheduled_time
             rest == [k \in 1..(Len(docs) - 1) |->
                         IF k < latest THEN docs[k] ELSE docs[k + 1]]
         IN <<docs[latest]>> \o SortByScheduledTimeDesc(rest)

\* GET /medication-logs/{user_id}?start_date=&end_date=: each date is None
\* or the instant its ISO string parses to
get_user_medication_logs(user_id, start_date, end_date) ==
    LET match(l) ==
            /\ l.user_id = user_id
            /\ start_date # None => l.scheduled_time >= start_date[1]
            /\ end_date # None => l.scheduled_time <= end_date[1]
    IN to_list(SortByScheduledTimeDesc(SelectSeq(medication_logs, match)), ToListLimit)

(*************************** health journal ********************************)
\* POST /health-journal: created_at and updated_at default to utcnow()
create_health_journal_entry(user_id, date, notes) ==
    /\ Len(health_journal) < MaxEntries
    /\ health_journal' = Append(health_journal,
           [id |-> Len(health_journal) + 1, user_id |-> user_id, date |-> date,
            notes |-> notes, caregiver_alerted |-> FALSE, updated_at |-> now])
    /\ UNCHANGED <<user_profiles, medications, medication_logs, now, dash, walk, calls, seen>>

\* lines 425-426: the supplied fields, and updated_at put in before the
\* dictionary is tested
journal_update_dict(upd) == update_dict(upd) \cup {"updated_at"}

\* {"$set": update_dict} of update_health_journal_entry
SetJournalFields(doc, upd) == [SetFields(doc, upd) EXCEPT !.updated_at = now]

\* PUT /health-journal/{entry_id}: 400 when update_dict is empty, 404
\* without a match
update_health_journal_entry(entry_id, upd) ==
    /\ IF journal_update_dict(upd) = {} \/ ~Matched(health_journal, entry_id)
       THEN UNCHANGED health_journal
       ELSE health_journal' = [health_journal EXCEPT
                ![entry_id] = SetJournalFields(@, upd)]
    /\ UNCHANGED <<user_profiles, medications, medication_logs, now, dash, walk, calls, seen>>

\* the response of update_health_journal_entry: the entry read back
update_health_journal_entry_response(entry_id, upd) ==
    IF journal_update_dict(upd) = {} THEN BadRequest
    ELSE IF ~Matched(health_journal, entry_id) THEN NotFound
    ELSE Ok(SetJournalFields(health_journal[entry_id], upd))

(****************************** clock **************************************)
Tick ==
    /\ now < MaxNow
    /\ now' = now + 1
    /\ UNCHANGED <<user_profiles, medications, medication_logs, dash, walk, calls, health_journal, seen>>

(**************************** streak walk **********************************)
\* calculate_medication_streak, lines 479-480: the date is read from the
\* system clock once, before the loop
StreakEnter(caller, user_id) ==
    [pc |-> "loop", caller |-> caller, user_id |-> user_id,
     current_date |-> DateOf(now), i |-> 0, streak |-> 0, last_read |-> None]

\* the day-bucket read of iteration i (lines 483-490)
DayLogs(user_id, check_date) ==
    FindLogsInRange(user_id, DayStart(check_date), DayEnd(check_date))

\* sum(1 for log in day_logs if log.get("status") == "missed")
MissedCount(day_logs) ==
    LET missed(l) == l.status = "missed" IN Len(SelectSeq(day_logs, missed))

\* Breaks, were a day to need a taken dose to count
BreaksUnlessTaken(day_logs) ==
    LET taken(l) == l.status = "taken"
    IN Len(day_logs) = 0 \/ MissedCount(day_logs) > 0
       \/ Len(SelectSeq(day_logs, taken)) = 0

\* lines 492-497: the iteration breaks out of the loop
Breaks(day_logs) == Len(day_logs) = 0 \/ MissedCount(day_logs) > 0

\* StreakIterate, were the loop to run once more than range(365)
StreakIterateOnceMore(w) ==
    LET check_date == w.current_date - w.i
        day_logs == DayLogs(w.user_id, check_date)
    IN IF Breaks(day_logs)
       THEN [w EXCEPT !.pc = "done", !.last_read = Some(check_date)]
       ELSE [w EXCEPT !.streak = @ + 1, !.i = @ + 1,
                      !.last_read = Some(check_date),
                      !.pc = IF w.i + 1 < LookbackLimit + 1 THEN "loop" ELSE "done"]

\* StreakIterate, were the date read from the clock in every iteration
StreakIterateClock(w) ==
    LET check_date == DateOf(now) - w.i
        day_logs == DayLogs(w.user_id, check_date)
    IN IF Breaks(day_logs)
       THEN [w EXCEPT !.pc = "done", !.last_read = Some(check_date)]
       ELSE [w EXCEPT !.streak = @ + 1, !.i = @ + 1,
                      !.last_read = Some(check_date),
                      !.pc = IF w.i + 1 < LookbackLimit THEN "loop" ELSE "done"]

\* one iteration of the loop: the frame after the await of lines 487-490
\* returns; last_read records the day that was read
StreakIterate(w) ==
    LET check_date == w.current_date - w.i
        day_logs == DayLogs(w.user_id, check_date)
    IN IF Breaks(day_logs)
       THEN [w EXCEPT !.pc = "done", !.last_read = Some(check_date)]
       ELSE [w EXCEPT !.streak = @ + 1, !.i = @ + 1,
                      !.last_read = Some(check_date),
                      !.pc = IF w.i + 1 < LookbackLimit THEN "loop" ELSE "done"]

\* the frame after n iterations of the loop run with no other request in
\* between, from the frame w
StreakRun(w, n) ==
    LET frame[k \in 0..n] ==
            IF k = 0 THEN w
            ELSE IF frame[k - 1].pc = "loop" THEN StreakIterate(frame[k - 1])
            ELSE frame[k - 1]
    IN frame[n]

\* calculate_medication_streak(user_id) run in one piece on the day `today`:
\* every day it counts holds a log, so the loop has ended after one
\* iteration more than there are logs
calculate_medication_streak(user_id, today) ==
    LET most == IF Len(medication_logs) < LookbackLimit
                THEN Len(medication_logs) + 1 ELSE LookbackLimit
    IN StreakRun([IdleWalk EXCEPT !.pc = "loop", !.caller = "direct",
                                  !.user_id = user_id, !.current_date = today],
                 most).streak

(***************************** dashboard ***********************************)
\* sum([med.get("total_pills", 0) - med.get("remaining_pills", 0) ...])
\* the sum is taken by halves so that its evaluation stays shallow
RECURSIVE SumPillsBetween(_, _, _)
SumPillsBetween(meds, lo, hi) ==
    IF lo > hi THEN 0
    ELSE IF lo = hi THEN meds[lo].total_pills - meds[lo].remaining_pills
    ELSE LET mid == (lo + hi) \div 2
         IN SumPillsBetween(meds, lo, mid) + SumPillsBetween(meds, mid + 1, hi)

SumPillsTaken(meds) == SumPillsBetween(meds, 1, Len(meds))

\* lines 468-475: the response body
DashboardResponse(d, streak) ==
    [code |-> 200,
     medications |-> d.medications,
     today_logs |-> d.today_logs,
     streak |-> streak,
     total_pills_taken |-> SumPillsTaken(d.medications),
     today_date |-> d.today]

\* lines 445-447: the request arrives and the profile is looked up
DashBegin(user_id) ==
    /\ dash.pc \in {"idle", "done"}
    /\ walk.pc \in {"idle", "raised"}
    /\ dash' = IF user_id \in {p.id : p \in user_profiles}
               THEN [IdleDash EXCEPT !.pc = "find_medications", !.user_id = user_id]
               ELSE [IdleDash EXCEPT !.pc = "done", !.user_id = user_id,
                                     !.response = Some(NotFound)]
    /\ UNCHANGED <<user_profiles, medications, medication_logs, now, walk, calls, health_journal, seen>>

\* line 450
DashFindMedications ==
    /\ dash.pc = "find_medications"
    /\ dash' = [dash EXCEPT !.pc = "read_today",
                            !.medications = FindActiveMedications(dash.user_id)]
    /\ UNCHANGED <<user_profiles, medications, medication_logs, now, walk, calls, health_journal, seen>>

\* lines 453-455: the handler resumes and reads the clock
DashReadToday ==
    /\ dash.pc = "read_today"
    /\ dash' = [dash EXCEPT !.pc = "find_today_logs", !.today = DateOf(now)]
    /\ UNCHANGED <<user_profiles, medications, medication_logs, now, walk, calls, health_journal, seen>>

\* DashFindTodayLogs, were the read to mark the user's overdue pending logs
\* as missed
DashFindTodayLogsSweep ==
    /\ dash.pc = "find_today_logs"
    /\ dash' = [dash EXCEPT !.pc = "call_streak",
                            !.today_logs = DayLogs(dash.user_id, dash.today)]
    /\ medication_logs' =
           [n \in DOMAIN medication_logs |->
               IF /\ medication_logs[n].user_id = dash.user_id
                  /\ medication_logs[n].status = "pending"
                  /\ medication_logs[n].scheduled_time <= now
               THEN [medication_logs[n] EXCEPT !.status = "missed"]
               ELSE medication_logs[n]]
    /\ UNCHANGED <<user_profiles, medications, now, walk, calls, health_journal, seen>>

\* lines 457-460
DashFindTodayLogs ==
    /\ dash.pc = "find_today_logs"
    /\ dash' = [dash EXCEPT !.pc = "call_streak",
                            !.today_logs = DayLogs(dash.user_id, dash.today)]
    /\ UNCHANGED <<user_profiles, medications, medication_logs, now, walk, calls, health_journal, seen>>

\* line 463 entering calculate_medication_streak (lines 479-480)
DashCallStreak ==
    /\ dash.pc = "call_streak"
    /\ dash' = [dash EXCEPT !.pc = "streak"]
    /\ walk' = StreakEnter("dashboard", dash.user_id)
    /\ seen' = {StoreStreak(dash.user_id, DateOf(now))}
    /\ UNCHANGED <<user_profiles, medications, medication_logs, now, calls, health_journal>>

\* a direct call of calculate_medication_streak(user_id)
StreakCall(user_id) ==
    /\ walk.pc \in {"idle", "raised"}
    /\ dash.pc \in {"idle", "done"}
    /\ Len(calls) < MaxCalls
    /\ walk' = StreakEnter("direct", user_id)
    /\ seen' = {StoreStreak(user_id, DateOf(now))}
    /\ UNCHANGED <<user_profiles, medications, medication_logs, now, dash, calls, health_journal>>

\* one day-bucket read of the walk; when the loop ends the function returns
\* to its caller without a further await (line 501, then lines 466-475)
StreakRead ==
    /\ walk.pc = "loop"
    /\ LET w == StreakIterate(walk)
       IN IF w.pc = "loop"
          THEN walk' = w /\ UNCHANGED <<dash, calls, seen>>
          ELSE /\ walk' = IdleWalk
               /\ seen' = {}
               /\ IF w.caller = "dashboard"
                  THEN /\ dash' = [dash EXCEPT !.pc = "done",
                              !.response = Some(DashboardResponse(dash, w.streak))]
                       /\ UNCHANGED calls
                  ELSE /\ calls' = Append(calls,
                              [user_id |-> w.user_id, current_date |-> w.current_date,
                               streak |-> w.streak, last_read |-> w.last_read])
                       /\ UNCHANGED dash
    /\ UNCHANGED <<user_profiles, medications, medication_logs, now, health_journal>>

(************************ faults and cancellation **************************)
\* the store raises in the await of line 445, 450 or 457-460: no handler
\* catches it and the request ends with the server's error response
DashReadFails ==
    /\ dash.pc \in {"find_medications", "find_today_logs"}
    /\ dash' = [dash EXCEPT !.pc = "done", !.response = Some(ServerError)]
    /\ UNCHANGED <<user_profiles, medications, medication_logs, now, walk, calls, health_journal, seen>>

\* StreakReadFails, were the loop to catch the exception and return the
\* days counted so far
StreakReadFailsCaught ==
    /\ walk.pc = "loop"
    /\ walk' = IdleWalk
    /\ seen' = {}
    /\ IF walk.caller = "dashboard"
       THEN dash' = [dash EXCEPT !.pc = "done",
                        !.response = Some(DashboardResponse(dash, walk.streak))]
       ELSE UNCHANGED dash
    /\ UNCHANGED <<user_profiles, medications, medication_logs, now, calls, health_journal>>

\* the store raises in the await of lines 487-490: neither the loop nor
\* line 463 catches it; the frame of the walk is unwound where it stood
StreakReadFails ==
    /\ walk.pc = "loop"
    /\ walk' = [walk EXCEPT !.pc = "raised"]
    /\ seen' = {}
    /\ IF walk.caller = "dashboard"
       THEN dash' = [dash EXCEPT !.pc = "done", !.response = Some(ServerError)]
       ELSE UNCHANGED dash
    /\ UNCHANGED <<user_profiles, medications, medication_logs, now, calls, health_journal>>

\* the request is cancelled in one of its awaits (the client has gone): the
\* frames are unwound and no response is sent
DashAbandon ==
    /\ dash.pc \in {"find_medications", "find_today_logs", "streak"}
    /\ dash' = [dash EXCEPT !.pc = "done", !.response = None]
    /\ IF dash.pc = "streak"
       THEN walk' = [walk EXCEPT !.pc = "raised"] /\ seen' = {}
       ELSE UNCHANGED <<walk, seen>>
    /\ UNCHANGED <<user_profiles, medications, medication_logs, now, calls, health_journal>>

(************************ initial document stores **************************)
\* a log document as create_medication_log and mark_medication_taken leave it
LogDoc(id, user_id, scheduled_time, status) ==
    [id |-> id, user_id |-> user_id, medication_id |-> 1,
     scheduled_time |-> scheduled_time,
     taken_at |-> IF status = "taken" THEN Some(scheduled_time) ELSE None,
     status |-> status]

\* the instant of the log of day -j: days alternate between their first and
\* their last instant
SlotOf(j) == IF j % 2 = 0 THEN DayStart(0 - j) ELSE DayEnd(0 - j)

\* what one day of a history holds for user u1: one log of the given status;
\* "mixed": a taken and a missed log; "other": only a log of user u2
DayKinds == {"taken", "pending", "current", "missed", "mixed", "other"}

DayDocs(j, kind) ==
    CASE kind = "mixed" -> <<LogDoc(0, "u1", SlotOf(j), "taken"),
                             LogDoc(0, "u1", SlotOf(j), "missed")>>
      [] kind = "other" -> <<LogDoc(0, "u2", SlotOf(j), "taken")>>
      [] OTHER -> <<LogDoc(0, "u1", SlotOf(j), kind)>>

\* documents get their ids in insertion order
Renumber(docs) == [n \in DOMAIN docs |-> [docs[n] EXCEPT !.id = n]]

RECURSIVE Concat(_, _)
Concat(kinds, j) ==
    IF j > Len(kinds) THEN <<>>
    ELSE DayDocs(j - 1, kinds[j]) \o Concat(kinds, j + 1)

\* a history: kinds[j+1] is what day -j holds
History(kinds) == Renumber(Concat(kinds, 1))

\* every history of at most MaxRun days
ShortHistories ==
    UNION {{History(k) : k \in [1..n -> DayKinds]} : n \in 0..MaxRun}

\* n days of one taken dose each, ending at day 0, with the one log of day
\* -(at) given the status `status` and the user `user_id`
LongHistory(n, at, user_id, status) ==
    [k \in 1..n |->
        IF k = at + 1 THEN LogDoc(k, user_id, SlotOf(k - 1), status)
        ELSE LogDoc(k, "u1", SlotOf(k - 1), "taken")]

\* histories about as long as the walk's look-back: unbroken ones, and ones
\* whose second-last or last day within the look-back breaks the streak
LongHistories ==
    {LongHistory(n, n, "u1", "taken") :
        n \in {LookbackLimit - 1, LookbackLimit, LookbackLimit + 1}}
    \cup {LongHistory(LookbackLimit + 1, at, "u1", "missed") :
            at \in {LookbackLimit - 2, LookbackLimit - 1}}
    \cup {LongHistory(LookbackLimit + 1, at, "u2", "taken") :
            at \in {LookbackLimit - 2, LookbackLimit - 1}}

\* one day holding more doses than one cursor read returns: n doses of day 0,
\* the last of them missed
CrowdedDay(n) ==
    [k \in 1..n |-> LogDoc(k, "u1", DayStart(0), IF k = n THEN "missed" ELSE "taken")]

CrowdedHistories == {CrowdedDay(ToListLimit), CrowdedDay(ToListLimit + 1)}

MedDoc(id, user_id, total_pills, remaining_pills, is_active) ==
    [id |-> id, user_id |-> user_id, total_pills |-> total_pills,
     remaining_pills |-> remaining_pills, is_active |-> is_active]

\* total_pills and remaining_pills of a stored medication: untouched,
\* used up, and with more pills remaining than there are in total
PillCounts == {<<3, 3>>, <<3, 0>>, <<1, 5>>}

\* every medication store of at most MaxMeds documents
MedDocs ==
    {MedDoc(0, u, p[1], p[2], a) : u \in UserIds, p \in PillCounts, a \in BOOLEAN}

SmallMedStores ==
    UNION {{Renumber(m) : m \in [1..n -> MedDocs]} : n \in 0..MaxMeds}

\* more active medications of one user than one cursor read returns
CrowdedMeds(n) == [k \in 1..n |-> MedDoc(k, "u1", 1, 0, TRUE)]

CrowdedMedStores == {CrowdedMeds(ToListLimit), CrowdedMeds(ToListLimit + 1)}

\* the profile a user signs up with
FirstProfile(id) == Profile(id, "Ann", 70)

(**************************** specifications *******************************)
\* the state after start-up: an empty database
Init ==
    /\ user_profiles = {}
    /\ medications = <<>>
    /\ medication_logs = <<>>
    /\ health_journal = <<>>
    /\ now = 0
    /\ dash = IdleDash
    /\ walk = IdleWalk
    /\ calls = <<>>
    /\ seen = {}

\* the aggregation over a given store: any log store with the medications
\* of one user, or any medication store with one day of doses
InitRead ==
    /\ user_profiles = {FirstProfile("u1")}
    /\ \/ /\ medication_logs \in ShortHistories \cup LongHistories \cup CrowdedHistories
          /\ medications = <<MedDoc(1, "u1", 3, 1, TRUE)>>
       \/ /\ medication_logs = History(<<"taken">>)
          /\ medications \in SmallMedStores \cup CrowdedMedStores
    /\ health_journal = <<>>
    /\ now = 0
    /\ dash = IdleDash
    /\ walk = IdleWalk
    /\ calls = <<>>
    /\ seen = {}

Dashboard ==
    \/ \E u \in UserIds : DashBegin(u)
    \/ DashFindMedications
    \/ DashReadToday
    \/ DashFindTodayLogs
    \/ DashCallStreak

\* a run serves dashboard requests, or calls the streak directly for one
\* user again and again
NextRead ==
    \/ calls = <<>> /\ Dashboard
    \/ StreakRead
    \/ \E u \in UserIds :
          /\ dash.pc = "idle"
          /\ calls # <<>> => calls[1].user_id = u
          /\ StreakCall(u)
    \/ Tick

SpecRead == InitRead /\ [][NextRead]_vars

ProfileWrites == \E id \in UserIds : create_user_profile(id, "Ann", 70)

MedicationWrites ==
    \/ \E u \in UserIds, t \in TotalInputs : create_medication(u, t)
    \/ \E m \in MedIdInputs, upd \in MedicationUpdates : update_medication(m, upd)
    \/ \E m \in MedIdInputs : delete_medication(m)

LogWrites ==
    \/ \E u \in UserIds, m \in 1..MaxMeds, t \in SchedInputs, st \in Statuses :
          create_medication_log(u, m, t, st)
    \/ \E l \in LogIdInputs, upd \in MedicationLogUpdates : update_medication_log(l, upd)
    \/ \E l \in LogIdInputs : mark_medication_taken(l)

\* the medication API and the dashboard, from an empty database
NextMeds ==
    \/ ProfileWrites
    \/ MedicationWrites
    \/ Dashboard
    \/ StreakRead

SpecMeds == Init /\ [][NextMeds]_vars

\* the dashboard with faults and cancellation, beside requests that take
\* doses and delete medications, over the documents of one user
JournalEntry(id, user_id, date, notes) ==
    [id |-> id, user_id |-> user_id, date |-> date, notes |-> notes,
     caregiver_alerted |-> FALSE, updated_at |-> 0]

InitFaults ==
    /\ user_profiles = {FirstProfile("u1")}
    /\ medications = <<MedDoc(1, "u1", 3, 1, TRUE)>>
    /\ medication_logs = History(<<"pending", "taken">>)
    /\ health_journal = <<JournalEntry(1, "u1", 0, "dizzy")>>
    /\ now = 0
    /\ dash = IdleDash
    /\ walk = IdleWalk
    /\ calls = <<>>
    /\ seen = {}

NextFaults ==
    \/ Dashboard
    \/ StreakRead
    \/ DashReadFails
    \/ StreakReadFails
    \/ DashAbandon
    \/ \E m \in MedIdInputs : delete_medication(m)
    \/ \E l \in LogIdInputs : mark_medication_taken(l)
    \/ Tick

SpecFaults == InitFaults /\ [][NextFaults]_vars

\* the requests that address a document by its id, over an empty database
\* and over one that holds one document of each kind, an instant after the
\* documents were written; the dashboard is asked for users without a profile
InitDocs ==
    /\ \/ /\ user_profiles = {}
          /\ medications = <<>>
          /\ medication_logs = <<>>
          /\ health_journal = <<>>
       \/ /\ user_profiles = {FirstProfile("u1")}
          /\ medications = <<MedDoc(1, "u1", 3, 3, TRUE)>>
          /\ medication_logs = <<LogDoc(1, "u1", DayStart(0), "pending")>>
          /\ health_journal = <<JournalEntry(1, "u1", 0, "")>>
    /\ now = 1
    /\ dash = IdleDash
    /\ walk = IdleWalk
    /\ calls = <<>>
    /\ seen = {}

NextDocs ==
    \/ \E u \in UserIds, upd \in UserProfileUpdates : update_user_profile(u, upd)
    \/ \E u \in UserIds : complete_onboarding(u)
    \/ \E m \in MedIdInputs, upd \in MedicationUpdates : update_medication(m, upd)
    \/ \E m \in MedIdInputs : delete_medication(m)
    \/ \E l \in LogIdInputs, upd \in MedicationLogUpdates : update_medication_log(l, upd)
    \/ \E l \in LogIdInputs : mark_medication_taken(l)
    \/ \E e \in EntryIdInputs, upd \in HealthJournalEntryUpdates :
          update_health_journal_entry(e, upd)
    \/ \E u \in UserIds : FindProfile(u) = {} /\ DashBegin(u)

SpecDocs == InitDocs /\ [][NextDocs]_vars

\* the dashboard beside requests that write the logs of its user (creating
\* a log, setting a log's status, taking a dose), and the clock, over one
\* dose taken today
InitRace ==
    /\ user_profiles = {FirstProfile("u1")}
    /\ medications = <<MedDoc(1, "u1", 3, 1, TRUE)>>
    /\ medication_logs = History(<<"taken">>)
    /\ health_journal = <<>>
    /\ now = 0
    /\ dash = IdleDash
    /\ walk = IdleWalk
    /\ calls = <<>>
    /\ seen = {}

NextRace ==
    \/ Dashboard
    \/ StreakRead
    \/ \E t \in SchedInputs, st \in Statuses : create_medication_log("u1", 1, t, st)
    \/ \E l \in LogIdInputs, st \in Statuses :
          update_medication_log(l, [taken_at |-> None, status |-> Some(st)])
    \/ \E l \in LogIdInputs : mark_medication_taken(l)
    \/ Tick

SpecRace == InitRace /\ [][NextRace]_vars

\* the medication-log API for both users, over one dose of user u1 today
InitIsolation ==
    /\ user_profiles = {FirstProfile("u1"), FirstProfile("u2")}
    /\ medications = <<MedDoc(1, "u1", 3, 3, TRUE), MedDoc(2, "u2", 3, 3, TRUE)>>
    /\ medication_logs = History(<<"taken">>)
    /\ health_journal = <<>>
    /\ now = 0
    /\ dash = IdleDash
    /\ walk = IdleWalk
    /\ calls = <<>>
    /\ seen = {}

NextIsolation ==
    \/ \E u \in UserIds, t \in SchedInputs, st \in Statuses :
          create_medication_log(u, 1, t, st)
    \/ \E l \in LogIdInputs, upd \in MedicationLogUpdates : update_medication_log(l, upd)
    \/ \E l \in LogIdInputs : mark_medication_taken(l)

SpecIsolation == InitIsolation /\ [][NextIsolation]_vars

\* the medication-log API and the clock, over the profiles and medications
\* of two users
InitLogs ==
    /\ user_profiles = {FirstProfile("u1"), FirstProfile("u2")}
    /\ medications = <<MedDoc(1, "u1", 3, 3, TRUE), MedDoc(2, "u2", 3, 3, TRUE)>>
    /\ medication_logs = <<>>
    /\ health_journal = <<>>
    /\ now = 0
    /\ dash = IdleDash
    /\ walk = IdleWalk
    /\ calls = <<>>
    /\ seen = {}

NextLogs ==
    \/ LogWrites
    \/ Tick

SpecLogs == InitLogs /\ [][NextLogs]_vars

\* the whole API; the claims are checked under the specifications above,
\* each of which keeps to the part of the API a claim speaks of
Next ==
    \/ ProfileWrites
    \/ \E u \in UserIds, upd \in UserProfileUpdates : update_user_profile(u, upd)
    \/ \E u \in UserIds : complete_onboarding(u)
    \/ MedicationWrites
    \/ LogWrites
    \/ \E u \in UserIds, d \in ScheduledDates, n \in JournalNotes :
          create_health_journal_entry(u, d, n)
    \/ \E e \in EntryIdInputs, upd \in HealthJournalEntryUpdates :
          update_health_journal_entry(e, upd)
    \/ Dashboard
    \/ StreakRead
    \/ DashReadFails
    \/ StreakReadFails
    \/ DashAbandon
    \/ Tick

Spec == Init /\ [][Next]_vars

(************************ what the claims speak of *************************)
\* the streak walk has just returned: to a direct caller, to the dashboard
ReturnedToCaller == calls' # calls
ReturnedToDashboard == dash.pc = "streak" /\ dash'.pc = "done"
LastCall == calls'[Len(calls')]

\* C1: whenever calculate_medication_streak returns, its result is the number
\* of days from today back to the first day whose bucket is empty or holds a
\* missed log, capped at 365
C1_FirstBreakingDay ==
    [][/\ ReturnedToCaller =>
            LastCall.streak = ClaimedStreak(LastCall.user_id, LastCall.current_date)
       /\ ReturnedToDashboard =>
            dash'.response[1].streak = ClaimedStreak(dash.user_id, walk.current_date)]_vars

\* the loop counter, the days read and the results stay within the look-back
C2_WalkState ==
    /\ walk.pc = "loop" =>
          /\ walk.i < LookbackLimit
          /\ walk.streak \in 0..LookbackLimit
          /\ walk.last_read # None =>
                walk.last_read[1] >= walk.current_date - (LookbackLimit - 1)
    /\ \A n \in DOMAIN calls :
          /\ calls[n].streak \in 0..LookbackLimit
          /\ calls[n].last_read # None
          /\ calls[n].last_read[1] >= calls[n].current_date - (LookbackLimit - 1)
    /\ (dash.pc = "done" /\ dash.response[1].code = 200) =>
          dash.response[1].streak \in 0..LookbackLimit

\* every day read ends the walk or moves it on by one day, and a walk over
\* 366 qualifying days returns 365
C2_WalkStep ==
    /\ (walk.pc = "loop" /\ walk' # walk) =>
          \/ walk'.pc = "idle"
          \/ walk'.pc = "loop" /\ walk'.i = walk.i + 1
    /\ (ReturnedToCaller /\ \A j \in 0..LookbackLimit :
            Qualifies(LastCall.user_id, LastCall.current_date - j))
          => LastCall.streak = LookbackLimit
    /\ (ReturnedToDashboard /\ \A j \in 0..LookbackLimit :
            Qualifies(dash.user_id, walk.current_date - j))
          => dash'.response[1].streak = LookbackLimit

\* C2: the walk ends after at most 365 day reads, none of a day before
\* today-364, and returns a number in 0..365: exactly 365 when the 366 days
\* ending today all qualify
C2_BoundedWalk == []C2_WalkState /\ [][C2_WalkStep]_vars

\* C2 witness: a walk over more than 365 qualifying days has returned 365
C2_Witness ==
    \E n \in DOMAIN calls :
        /\ calls[n].streak = LookbackLimit
        /\ Len(medication_logs) > LookbackLimit

\* C3: an iteration that reads a day whose logs are all pending or current
\* counts the day and goes on to the previous day (or, in the last
\* iteration, returns with the day counted)
C3_Lenient ==
    [][(/\ walk.pc = "loop"
        /\ walk' # walk
        /\ DayBucket(walk.user_id, walk.current_date - walk.i) # {}
        /\ \A l \in DayBucket(walk.user_id, walk.current_date - walk.i) :
              l.status \in {"pending", "current"})
       => IF walk.i + 1 < LookbackLimit
          THEN /\ walk'.pc = "loop"
               /\ walk'.streak = walk.streak + 1
               /\ walk'.i = walk.i + 1
          ELSE \/ ReturnedToCaller /\ LastCall.streak = walk.streak + 1
               \/ ReturnedToDashboard
                  /\ dash'.response[1].streak = walk.streak + 1]_vars

\* C3 witness: the walk has counted a day of only pending or current logs
C3_Witness ==
    /\ walk.pc = "loop"
    /\ walk.streak >= 1
    /\ DayBucket(walk.user_id, walk.current_date - (walk.i - 1)) # {}
    /\ \A l \in DayBucket(walk.user_id, walk.current_date - (walk.i - 1)) :
          l.status \in {"pending", "current"}

RECURSIVE ClaimedPillsBetween(_, _, _)
ClaimedPillsBetween(user_id, lo, hi) ==
    IF lo > hi THEN 0
    ELSE IF lo = hi
         THEN IF medications[lo].user_id = user_id /\ medications[lo].is_active
              THEN medications[lo].total_pills - medications[lo].remaining_pills
              ELSE 0
    ELSE LET mid == (lo + hi) \div 2
         IN ClaimedPillsBetween(user_id, lo, mid)
            + ClaimedPillsBetween(user_id, mid + 1, hi)

ClaimedPillsTaken(user_id) == ClaimedPillsBetween(user_id, 1, Len(medications))

\* C5: the dashboard's total_pills_taken is the sum of total_pills minus
\* remaining_pills over exactly the requesting user's active medications
\* (stated for a medication store that no request changes)
C5_TotalOverActive ==
    (dash.pc = "done" /\ dash.response[1].code = 200) =>
        dash.response[1].total_pills_taken = ClaimedPillsTaken(dash.user_id)

\* C6: a log whose status is taken or missed keeps that status in every step
C6_TerminalStatus ==
    [][\A n \in DOMAIN medication_logs :
          medication_logs[n].status \in {"taken", "missed"}
              => medication_logs'[n].status = medication_logs[n].status]_vars

\* C7: every stored log has taken_at set exactly when its status is taken
C7_TakenAtIffTaken ==
    \A n \in DOMAIN medication_logs :
        (medication_logs[n].taken_at # None) <=> (medication_logs[n].status = "taken")

\* C8: every stored medication has 0 <= remaining_pills <= total_pills
C8_PillBounds ==
    \A n \in DOMAIN medications :
        /\ 0 <= medications[n].remaining_pills
        /\ medications[n].remaining_pills <= medications[n].total_pills

IdsOf(docs) == {docs[n].id : n \in DOMAIN docs}

\* a delete of an existing medication changes its is_active alone, and
\* leaves it out of every user's get_user_medications
C9_DeleteStep ==
    \A m \in MedIdInputs :
        (delete_medication(m) /\ Matched(medications, m)) =>
            /\ DOMAIN medications' = DOMAIN medications
            /\ \A n \in DOMAIN medications :
                  n # m => medications'[n] = medications[n]
            /\ \A k \in DOMAIN medications[m] :
                  k # "is_active" => medications'[m][k] = medications[m][k]
            /\ medications'[m].is_active = FALSE
            /\ UNCHANGED <<user_profiles, medication_logs>>
            /\ \A u \in UserIds : medications[m].id \notin IdsOf(get_user_medications(u))'

\* no step removes a medication document or changes its id
C9_NoRemoval ==
    /\ Len(medications') >= Len(medications)
    /\ \A n \in DOMAIN medications : medications'[n].id = medications[n].id

\* the medications a dashboard request reads hold no inactive medication
C9_DashboardList ==
    (dash.pc = "find_medications" /\ dash'.pc = "read_today") =>
        \A n \in DOMAIN medications :
            ~medications[n].is_active => medications[n].id \notin IdsOf(dash'.medications)

\* C9: a delete of an existing medication only sets its is_active to false;
\* no step removes a medication document; after the delete the medication
\* is in no user's get_user_medications, and no dashboard request that
\* reads the medications while it is inactive lists it
C9_LogicalDelete == [][C9_DeleteStep /\ C9_NoRemoval /\ C9_DashboardList]_vars

\* C9 witness: a dashboard request has read the medications of a user who
\* has an active and a deleted medication, and lists only the active one
C9_Witness ==
    /\ dash.pc = "read_today"
    /\ dash.medications # <<>>
    /\ \E n \in DOMAIN medications :
          /\ medications[n].user_id = dash.user_id
          /\ ~medications[n].is_active
          /\ medications[n].id \notin IdsOf(dash.medications)

\* C10: a log read for user u (the log list, a day-bucket read of the
\* dashboard or of the streak) yields no log whose medication belongs to
\* another user
C10_OwnMedicationsOnly ==
    \A u \in UserIds :
        \A l \in Range(get_user_medication_logs(u, None, None))
                 \cup UNION {Range(DayLogs(u, d)) : d \in ScheduledDates} :
            \A n \in DOMAIN medications :
                medications[n].id = l.medication_id => medications[n].user_id = u

\* a step of get_user_dashboard or of calculate_medication_streak
AggregationStep == dash' # dash \/ walk' # walk \/ calls' # calls

\* C11: no step of get_user_dashboard or calculate_medication_streak (a
\* read, the return, a failed read, the cancellation of the request) changes
\* user_profiles, medications, medication_logs or health_journal
C11_ReadOnly ==
    [][AggregationStep =>
          UNCHANGED <<user_profiles, medications, medication_logs, health_journal>>]_vars

\* C11 witness: a dashboard request was cancelled after the walk had
\* counted a day, beside a dose taken and a medication deleted
C11_Witness ==
    /\ dash.pc = "done"
    /\ dash.response = None
    /\ walk.pc = "raised"
    /\ walk.streak >= 1
    /\ \E n \in DOMAIN medications : ~medications[n].is_active
    /\ \E n \in DOMAIN medication_logs : medication_logs[n].taken_at = Some(now)
    /\ health_journal # <<>>

\* a failed day-bucket read ends the walk where it stood, hands no result to
\* a direct caller, and ends the dashboard request with the error response
C12_FailedRead ==
    StreakReadFails =>
        /\ walk'.pc = "raised"
        /\ walk'.i = walk.i
        /\ walk'.streak = walk.streak
        /\ calls' = calls
        /\ walk.caller = "dashboard" =>
              /\ dash'.pc = "done"
              /\ dash'.response = Some(ServerError)
              /\ "streak" \notin DOMAIN dash'.response[1]

\* a walk that has raised reads no further day: its frame changes only when
\* a new call enters the function
C12_NoRetry ==
    walk.pc = "raised" =>
        \/ walk' = walk
        \/ walk'.pc = "loop" /\ walk'.i = 0 /\ walk'.streak = 0

\* C12: a day-bucket read that fails, after any number of successful reads,
\* ends calculate_medication_streak with the error: the read is not retried,
\* no streak (not the days counted so far) is returned, and the dashboard
\* request ends with an error response that holds no streak
C12_FaultPropagates == [][C12_FailedRead /\ C12_NoRetry]_vars

\* C12 witness: a dashboard request ended with the error response when a
\* day-bucket read failed after the walk had counted a day
C12_Witness ==
    /\ walk.pc = "raised"
    /\ walk.caller = "dashboard"
    /\ walk.streak >= 1
    /\ dash.pc = "done"
    /\ dash.response = Some(ServerError)

\* the medications of a response that are active in the store
StillActive(meds) ==
    LET active(m) == medications[m.id].is_active IN SelectSeq(meds, active)

\* C13: a dashboard request that returns beside delete_medication requests
\* returns a response (it does not raise), and no medication that is
\* deleted in the store when the response is built is in its medications
\* list or counted in its total_pills_taken
C13_DeletedExcluded ==
    [][ReturnedToDashboard =>
          /\ dash'.response[1].code = 200
          /\ \A n \in DOMAIN medications :
                ~medications[n].is_active =>
                    medications[n].id \notin IdsOf(dash'.response[1].medications)
          /\ dash'.response[1].total_pills_taken =
                SumPillsTaken(StillActive(dash'.response[1].medications))]_vars

\* the four collections
Store == <<user_profiles, medications, medication_logs, health_journal>>

\* the ids a request may name that no document has
UnknownUsers == {u \in UserIds : FindProfile(u) = {}}
UnknownMeds == {m \in MedIdInputs : ~Matched(medications, m)}
UnknownLogs == {l \in LogIdInputs : ~Matched(medication_logs, l)}

\* the update requests that supply at least one field
WithFields(updates) == {upd \in updates : update_dict(upd) # {}}

\* the profile and medication requests answer 404 for an unknown id
C14_ProfileReplies ==
    \A u \in UnknownUsers :
        /\ get_user_profile(u) = NotFound
        /\ complete_onboarding_response(u) = NotFound
        /\ \A upd \in WithFields(UserProfileUpdates) :
              update_user_profile_response(u, upd) = NotFound

C14_MedicationReplies ==
    \A m \in UnknownMeds :
        /\ delete_medication_response(m) = NotFound
        /\ \A upd \in WithFields(MedicationUpdates) :
              update_medication_response(m, upd) = NotFound

\* the log requests answer 404 for an unknown id, for these update requests
C14_LogReplies(updates) ==
    \A l \in UnknownLogs :
        /\ mark_medication_taken_response(l) = NotFound
        /\ \A upd \in updates : update_medication_log_response(l, upd) = NotFound

\* a request that names an unknown id changes no collection, and the
\* dashboard request for an unknown user ends with 404
C14_Frame ==
    /\ \A u \in UnknownUsers :
          DashBegin(u) => (dash'.response = Some(NotFound) /\ UNCHANGED Store)
    /\ Store' # Store =>
          /\ \A u \in UnknownUsers :
                /\ \A upd \in UserProfileUpdates : ~update_user_profile(u, upd)
                /\ ~complete_onboarding(u)
          /\ \A m \in UnknownMeds :
                /\ \A upd \in MedicationUpdates : ~update_medication(m, upd)
                /\ ~delete_medication(m)
          /\ \A l \in UnknownLogs :
                /\ \A upd \in MedicationLogUpdates : ~update_medication_log(l, upd)
                /\ ~mark_medication_taken(l)

\* C14: a request for an id that no document has is answered 404 and
\* changes no collection: get_user_profile, update_user_profile (with a
\* field), complete_onboarding and get_user_dashboard for a user id;
\* update_medication (with a field) and delete_medication for a medication
\* id; update_medication_log (with or without a field) and
\* mark_medication_taken for a log id
C14_NotFound ==
    /\ [](C14_ProfileReplies /\ C14_MedicationReplies
            /\ C14_LogReplies(MedicationLogUpdates))
    /\ [][C14_Frame]_vars

\* C14 as it holds: as above, with update_medication_log answering 404 for
\* an unknown log id when the request supplies at least one field (without
\* a field it answers 400, whatever the id)
C14_NotFoundWithFields ==
    /\ [](C14_ProfileReplies /\ C14_MedicationReplies
            /\ C14_LogReplies(WithFields(MedicationLogUpdates)))
    /\ [][C14_Frame]_vars

\* C14 witness: a dashboard request for a user without a profile was
\* answered 404 in a database that holds documents and leaves ids unknown
C14_Witness ==
    /\ dash.pc = "done"
    /\ dash.response = Some(NotFound)
    /\ dash.user_id \in UnknownUsers
    /\ user_profiles # {}
    /\ UnknownMeds # {} /\ medications # <<>>
    /\ UnknownLogs # {} /\ medication_logs # <<>>

\* the fields of a document after an update: the supplied ones as supplied,
\* every other one as it was
Updated(old, new, upd) ==
    /\ DOMAIN new = DOMAIN old
    /\ \A k \in DOMAIN old :
          new[k] = IF k \in update_dict(upd) THEN upd[k][1] ELSE old[k]

C15_ProfileStep ==
    user_profiles' # user_profiles =>
    \A u \in UserIds, upd \in UserProfileUpdates :
        (update_user_profile(u, upd) /\ update_user_profile_response(u, upd).code = 200) =>
            LET old == CHOOSE p \in FindProfile(u) : TRUE
                new == CHOOSE p \in FindProfile(u)' : TRUE
            IN /\ Cardinality(FindProfile(u)') = 1
               /\ Updated(old, new, upd)
               /\ update_user_profile_response(u, upd).body = new
               /\ get_user_profile(u)' = Ok(new)
               /\ user_profiles' \ {new} = user_profiles \ {old}
               /\ UNCHANGED <<medications, medication_logs, health_journal>>

C15_MedicationStep ==
    medications' # medications =>
    \A m \in MedIdInputs, upd \in MedicationUpdates :
        (update_medication(m, upd) /\ update_medication_response(m, upd).code = 200) =>
            /\ DOMAIN medications' = DOMAIN medications
            /\ Updated(medications[m], medications'[m], upd)
            /\ update_medication_response(m, upd).body = medications'[m]
            /\ \A n \in DOMAIN medications : n # m => medications'[n] = medications[n]
            /\ UNCHANGED <<user_profiles, medication_logs, health_journal>>

\* C15: an update_user_profile or update_medication answered 200 sets the
\* supplied fields of the addressed document to the supplied values; the
\* returned document and a later read show them; every other field of the
\* document and every other document are as they were
C15_ExactlySupplied == [][C15_ProfileStep /\ C15_MedicationStep]_vars

\* C15 witness: a profile whose name alone, and a medication whose
\* remaining_pills alone, has been updated
C15_Witness ==
    /\ \E p \in user_profiles : p.name = "Bea" /\ p.age = 70
    /\ \E n \in DOMAIN medications :
          /\ medications[n].remaining_pills = 5
          /\ medications[n].total_pills = 3
          /\ medications[n].is_active

\* an update request that supplies no field
NoFields(updates) == CHOOSE upd \in updates : update_dict(upd) = {}

C16_Replies ==
    /\ \A u \in UserIds :
          update_user_profile_response(u, NoFields(UserProfileUpdates)) = BadRequest
    /\ \A m \in MedIdInputs :
          update_medication_response(m, NoFields(MedicationUpdates)) = BadRequest
    /\ \A l \in LogIdInputs :
          update_medication_log_response(l, NoFields(MedicationLogUpdates)) = BadRequest
    /\ \A e \in EntryIdInputs :
          update_health_journal_entry_response(e, NoFields(HealthJournalEntryUpdates))
              = BadRequest

C16_Frame ==
    /\ \A u \in UserIds :
          update_user_profile(u, NoFields(UserProfileUpdates)) => UNCHANGED Store
    /\ \A m \in MedIdInputs :
          update_medication(m, NoFields(MedicationUpdates)) => UNCHANGED Store
    /\ \A l \in LogIdInputs :
          update_medication_log(l, NoFields(MedicationLogUpdates)) => UNCHANGED Store
    /\ \A e \in EntryIdInputs :
          update_health_journal_entry(e, NoFields(HealthJournalEntryUpdates))
              => UNCHANGED Store

\* C16: update_user_profile, update_medication, update_medication_log and
\* update_health_journal_entry answer a request that supplies no field with
\* 400 and leave the four collections unchanged, whether or not the id is
\* known
C16_NoFieldsRejected == []C16_Replies /\ [][C16_Frame]_vars

\* C17: the streak a dashboard request returns is the streak that the log
\* store held in some state between the start and the end of the walk,
\* whatever log writes ran between the day-bucket reads
C17_SnapshotConsistent ==
    [][ReturnedToDashboard => dash'.response[1].streak \in seen]_vars

\* C18: in every dashboard response the streak is 1 or more exactly when
\* today_logs is non-empty and holds no missed log, and the day the walk
\* started from is the response's today_date
C18_ConsistentResponse ==
    [][ReturnedToDashboard =>
          LET r == dash'.response[1]
          IN /\ (r.streak >= 1) <=>
                    /\ r.today_logs # <<>>
                    /\ \A l \in Range(r.today_logs) : l.status # "missed"
             /\ walk.current_date = r.today_date]_vars

\* the logs of one user, in the order of the collection
LogsOf(user_id) ==
    LET own(l) == l.user_id = user_id IN SelectSeq(medication_logs, own)

\* the day bucket and the streak of a store that holds these logs and no
\* other: the first 1000 logs of the day, and the offset of the first day
\* whose bucket is empty or shows a missed log, capped
BucketOver(logs, d) ==
    LET in_day(l) == l.scheduled_time >= DayStart(d) /\ l.scheduled_time <= DayEnd(d)
    IN to_list(SelectSeq(logs, in_day), ToListLimit)

StreakOver(logs, today) ==
    LET most == IF Len(logs) < LookbackLimit THEN Len(logs) ELSE LookbackLimit
    IN CHOOSE k \in 0..most :
           /\ k = LookbackLimit \/ Breaks(BucketOver(logs, today - k))
           /\ \A j \in 0..(k - 1) : ~Breaks(BucketOver(logs, today - j))

\* C19: calculate_medication_streak(u) and the today_logs read for u are
\* what they would be in a store that holds the logs of u alone, for every
\* day the request may take for today: stores that agree on the logs of u
\* give the same streak and today_logs, and no log of another user that is
\* created, updated or taken changes them
C19_UserIsolation ==
    \A u \in UserIds :
        \A d \in ScheduledDates :
            /\ calculate_medication_streak(u, d) = StreakOver(LogsOf(u), d)
            /\ DayLogs(u, d) = BucketOver(LogsOf(u), d)

\* C19 witness: user u2 has a missed log today, beside a log of user u1
\* today that gives u1 a streak
C19_Witness ==
    /\ \E n \in DOMAIN medication_logs :
          /\ medication_logs[n].user_id = "u2"
          /\ medication_logs[n].status = "missed"
          /\ DateOf(medication_logs[n].scheduled_time) = 0
    /\ DayLogs("u1", 0) # <<>>
    /\ calculate_medication_streak("u1", 0) >= 1

====
